---- MODULE Spec2Model ----
(***************************************************************************)
(* Model of collect.py: ServerMonitor (configuration resolver, per-host    *)
(* metric sampler, fleet collector, report exporter) and main.             *)
(*                                                                         *)
(* Text produced by a remote command is a sequence of whitespace-separated *)
(* tokens (or a sequence of such lines); a token is an integer literal, a  *)
(* decimal literal, a literal with a G suffix, or garbage.  Decimal values *)
(* are kept as integers counting hundredths, so that round(x, 2) is a real *)
(* rounding step.  An exception is the text of its class.                  *)
(***************************************************************************)
EXTENDS Integers, Sequences, FiniteSets, TLC

\* ------------------------------------------------------------------ bounds
MaxServers == 2        \* longest servers list of a configuration
MaxLines == 2          \* most lines a network / disk command prints
MaxAnomalies == 2      \* most failed connects and misbehaving (host visit, command) pairs of a run

\* -------------------------------------------------------- program constants
Scale == 100           \* two decimals: round(x, 2)
Repeats == 3           \* for _ in range(3)
DefaultPort == 22      \* default_creds.get('port', 22)

\* ------------------------------------------------------------------ tokens
Int_(n) == [kind |-> "int", val |-> n * Scale]
Dec_(h) == [kind |-> "dec", val |-> h]
Gb_(n) == [kind |-> "gb", val |-> n * Scale]
Bad == [kind |-> "bad", val |-> 0]

\* the outcome of an expression: a value, or the exception it raises
Ok(v) == [ok |-> TRUE, val |-> v, err |-> "none"]
Err(e) == [ok |-> FALSE, val |-> 0, err |-> e]

ValueError == "ValueError"
KeyError == "KeyError"
ZeroDivisionError == "ZeroDivisionError"
SSHException == "SSHException"
NoExc == "none"
None == <<>>           \* no record / no list yet

\* float(s): s is one numeric literal
float(text) ==
    IF Len(text) = 1 /\ text[1].kind \in {"int", "dec"} THEN Ok(text[1].val) ELSE Err(ValueError)

\* int(s): s is one integer literal; the result counts units
int(text) ==
    IF Len(text) = 1 /\ text[1].kind = "int" THEN Ok(text[1].val \div Scale) ELSE Err(ValueError)

\* s or d
OrDefault(text, d) == IF text = <<>> THEN d ELSE text

\* x.replace('G', '') on one token
ReplaceG(tok) == IF tok.kind = "gb" THEN [kind |-> "int", val |-> tok.val] ELSE tok

\* a, b, ... = map(float, s.split()) with exactly n targets
Unpack(text, n) ==
    IF Len(text) = n /\ \A i \in 1..n : float(<<text[i]>>).ok
    THEN Ok([i \in 1..n |-> float(<<text[i]>>).val])
    ELSE Err(ValueError)

\* round(num / den, 2) of a non-negative quotient of hundredths, ties to even
Round2(num, den) ==
    LET q == num \div den
        r == num % den
    IN  IF 2 * r < den THEN q
        ELSE IF 2 * r > den THEN q + 1
        ELSE IF q % 2 = 0 THEN q ELSE q + 1

RECURSIVE Sum(_)
Sum(s) == IF s = <<>> THEN 0 ELSE s[1] + Sum(Tail(s))

Max(s) == CHOOSE x \in {s[i] : i \in DOMAIN s} : \A j \in DOMAIN s : s[j] <= x
Min(s) == CHOOSE x \in {s[i] : i \in DOMAIN s} : \A j \in DOMAIN s : x <= s[j]

Column(rows, k) == [i \in DOMAIN rows |-> rows[i][k]]

\* ------------------------------------------------ configuration file inputs
EmptyDict == <<>>
Unreadable == [readable |-> FALSE, content |-> None]   \* open() or yaml.safe_load raises

DefaultCredentials ==
    { [username |-> "admin", password |-> "secret"],
      [username |-> "admin", port |-> 2200] }

ServerRecords ==
    { [host |-> "10.0.0.1"],
      [host |-> "10.0.0.2", username |-> "root", password |-> "pw", port |-> 2222],
      [username |-> "root"] }

RECURSIVE SeqsUpTo(_, _)
SeqsUpTo(S, n) ==
    IF n = 0 THEN { <<>> }
    ELSE LET shorter == SeqsUpTo(S, n - 1)
         IN  shorter \cup { Append(q, x) : q \in { t \in shorter : Len(t) = n - 1 }, x \in S }

ConfigFiles ==
    { Unreadable } \cup
    { [readable |-> TRUE, content |-> [default_credentials |-> d, servers |-> sv]] :
        d \in DefaultCredentials, sv \in SeqsUpTo(ServerRecords, MaxServers) }

\* ------------------------------------------------- remote command outputs
ConnectErrors == { "timed out" }

\* For each command: the texts it may print, and the reference output of a
\* healthy host.  A command that once gives another outcome on a host (another
\* text, or raising) misbehaves for that visit: it is one anomaly.
NprocTexts == { <<>>, <<Int_(4)>>, <<Dec_(250)>>, <<Bad>> }
NprocRef == { <<Int_(4)>> }

CpuTexts == { <<>>, <<Dec_(250)>>, <<Bad>>, <<Dec_(250), Dec_(250)>> }
CpuRef == { <<Dec_(250)>> }

MemTexts ==
    { <<>>, <<Bad>>,
      <<Int_(16), Int_(8), Int_(8)>>,
      <<Int_(0), Int_(5), Int_(3)>>,
      <<Int_(0), Int_(0), Int_(0)>>,
      <<Int_(16), Int_(8)>>,
      <<Int_(16), Bad, Int_(8)>>,
      <<Int_(16), Int_(8), Int_(8), Int_(8)>> }
MemRef == { <<Int_(16), Int_(8), Int_(8)>> }

NetLines == { <<>>, <<Dec_(150), Dec_(50)>>, <<Dec_(150)>>, <<Bad, Dec_(50)>> }
NetOutputs == SeqsUpTo(NetLines, MaxLines)
NetRef == { << <<Dec_(150), Dec_(50)>> >> }

DiskLines ==
    { <<>>, <<Bad>>, <<Gb_(10), Gb_(4)>>, <<Gb_(10), Gb_(4), Gb_(6)>>,
      <<Gb_(20), Gb_(5), Gb_(15)>> }
DiskOutputs == SeqsUpTo(DiskLines, MaxLines)
DiskRef == { << <<Gb_(10), Gb_(4), Gb_(6)>> >> }

\* --------------------------------------------------------------- the state
VARIABLES
    config_file,     \* content of server_config.yml, or Unreadable
    config,          \* self.config
    servers_info,    \* self.servers_info
    results,         \* self.results
    pc,              \* position of main / collect_all_servers_data / get_server_stats
    idx,             \* position of the for loop over servers_info (1-based)
    sessions,        \* every remote session opened so far: [host, open]
    ssh,             \* get_server_stats: index in sessions of the connected client, 0 if none
    execd,           \* commands issued on the host being sampled, in order
    stdout,          \* get_server_stats: outcome of the last exec_command / read
    cpu_output,      \* get_server_stats: text of the primary command of the last repeat
    anomalies,       \* failed connects and misbehaving commands of the run so far
    deviant,         \* the commands that misbehave on the host being sampled
    rep,             \* get_server_stats: completed iterations of the CPU loop
    cpu_cores, cpu_samples,
    total_mem_gb, used_mem_gb, free_mem_gb, mem_usage,
    net_stats, disk_stats,
    exc,             \* exception being handled / escaped, NoExc if none
    ret,             \* value returned by get_server_stats
    now,             \* seconds slept so far: the clock read by datetime.now()
    frame,           \* export_to_excel: the DataFrame handed to to_excel
    file,            \* the spreadsheet on disk
    log              \* logging.error records

main_vars == <<config_file, config, servers_info, results, idx, frame, file>>
locals == <<rep, cpu_cores, cpu_samples, total_mem_gb, used_mem_gb, free_mem_gb,
            mem_usage, net_stats, disk_stats, cpu_output>>
vars == <<config_file, config, servers_info, results, pc, idx, sessions, ssh, execd,
          stdout, cpu_output, anomalies, deviant, rep, cpu_cores, cpu_samples,
          total_mem_gb, used_mem_gb, free_mem_gb, mem_usage, net_stats, disk_stats, exc, ret, now, frame, file, log>>

NoFrame == None
NoFile == None

Init ==
    /\ config_file \in ConfigFiles
    /\ config = None
    /\ servers_info = <<>>
    /\ results = <<>>
    /\ pc = "construct"
    /\ idx = 0
    /\ sessions = <<>>
    /\ ssh = 0
    /\ execd = <<>>
    /\ stdout = None
    /\ cpu_output = <<>>
    /\ anomalies = 0
    /\ deviant = {}
    /\ rep = 0
    /\ cpu_cores = 0
    /\ cpu_samples = <<>>
    /\ total_mem_gb = 0
    /\ used_mem_gb = 0
    /\ free_mem_gb = 0
    /\ mem_usage = 0
    /\ net_stats = <<>>
    /\ disk_stats = <<>>
    /\ exc = NoExc
    /\ ret = None
    /\ now = 0
    /\ frame = NoFrame
    /\ file = NoFile
    /\ log = <<>>

\* ------------------------------------------------ ServerMonitor.__init__
\* _load_config
LoadConfig(f) ==
    IF f.readable THEN f.content ELSE [default_credentials |-> EmptyDict, servers |-> <<>>]

\* dict.get(k, d)
Get(d, k, dflt) == IF k \in DOMAIN d THEN d[k] ELSE dflt

\* ProcessServer with the fleet defaults taking precedence over the record
ProcessServer_DefaultsWin(server, default_creds) ==
    [host |-> server["host"],
     username |-> Get(default_creds, "username", Get(server, "username", "")),
     password |-> Get(default_creds, "password", Get(server, "password", "")),
     port |-> Get(default_creds, "port", Get(server, "port", DefaultPort))]

\* one iteration of the loop of _process_servers_config
ProcessServer(server, default_creds) ==
    [host |-> server["host"],
     username |-> Get(server, "username", Get(default_creds, "username", "")),
     password |-> Get(server, "password", Get(default_creds, "password", "")),
     port |-> Get(server, "port", Get(default_creds, "port", DefaultPort))]

\* ProcessServersConfig with a record without 'host' left out of the result
ProcessServersConfig_SkipsFaulty(cfg) ==
    LET default_creds == Get(cfg, "default_credentials", EmptyDict)
        servers == SelectSeq(Get(cfg, "servers", <<>>), LAMBDA r : "host" \in DOMAIN r)
    IN  Ok([i \in DOMAIN servers |-> ProcessServer(servers[i], default_creds)])

\* _process_servers_config: KeyError at the first record without 'host'
ProcessServersConfig(cfg) ==
    LET default_creds == Get(cfg, "default_credentials", EmptyDict)
        servers == Get(cfg, "servers", <<>>)
    IN  IF \E i \in DOMAIN servers : "host" \notin DOMAIN servers[i]
        THEN Err(KeyError)
        ELSE Ok([i \in DOMAIN servers |-> ProcessServer(servers[i], default_creds)])

Construct ==
    /\ pc = "construct"
    /\ LET cfg == LoadConfig(config_file)
           info == ProcessServersConfig(cfg)
       IN  /\ config' = cfg
           /\ log' = IF config_file.readable THEN log ELSE Append(log, "load_config")
           /\ IF ~info.ok
              THEN /\ exc' = info.err
                   /\ pc' = "raised"
                   /\ UNCHANGED <<servers_info, results, idx>>
              ELSE /\ servers_info' = info.val
                   /\ results' = <<>>
                   /\ idx' = 1
                   /\ pc' = "loop"
                   /\ exc' = NoExc
    /\ UNCHANGED <<config_file, sessions, ssh, execd, stdout, anomalies, deviant, locals, ret, now,
                   frame, file>>

\* ------------------------------------------ ServerMonitor.get_server_stats
\* what ssh.exec_command(cmd) followed by stdout.read() / readlines() does
Raised == [raised |-> TRUE, out |-> <<>>]
Outcomes(texts) == { Raised } \cup { [raised |-> FALSE, out |-> t] : t \in texts }

\* stdout.readlines() in place of stdout.read(): the output is a list of lines
ReadLines(o) == IF o.raised THEN o ELSE [raised |-> FALSE, lines |-> o.out]

\* cpu_cores = int(stdout.read().decode().strip() or '1')
CoreCount(text) == int(OrDefault(text, <<Int_(1)>>))

\* the body of the try of one CPU repeat, given the text of the chosen command
\* (the primary's when it is not empty, the secondary's or '0' otherwise)
CpuUsage(primary, secondary) ==
    IF primary # <<>> THEN float(primary) ELSE float(OrDefault(secondary, <<Int_(0)>>))

\* RunsSecondary with the fallback also taken when the primary does not parse
RunsSecondary_OnParseFailure(p) == ~p.raised /\ ~float(p.out).ok

\* if cpu_output: ... else: the secondary command is run
RunsSecondary(p) == ~p.raised /\ p.out = <<>>

\* AppendSample with a failed parse leaving the sample out
AppendSample_DropOnError(samples, usage) ==
    IF usage.ok THEN Append(samples, usage.val) ELSE samples

\* cpu_samples.append(cpu_usage), or
\* except (ValueError, IndexError): cpu_samples.append(0.0)
AppendSample(samples, usage) == Append(samples, IF usage.ok THEN usage.val ELSE 0)

\* MemParse without the handler: a failed parse escapes
MemParse_NoHandler(text) ==
    LET p == Unpack(text, 3)
    IN  IF p.ok
        THEN Ok([total |-> p.val[1], used |-> p.val[2], free |-> p.val[3],
                 usage |-> IF p.val[1] > 0 THEN Round2(p.val[2] * 100 * Scale, p.val[1]) ELSE 0])
        ELSE Err(ValueError)

\* the memory try / except
MemParse(text) ==
    LET p == Unpack(text, 3)
    IN  IF p.ok
        THEN Ok([total |-> p.val[1], used |-> p.val[2], free |-> p.val[3],
                 usage |-> IF p.val[1] > 0 THEN Round2(p.val[2] * 100 * Scale, p.val[1]) ELSE 0])
        ELSE Ok([total |-> 0, used |-> 0, free |-> 0, usage |-> 0])

\* one line of the network output
NetEntry(line) ==
    LET p == Unpack(line, 2)
    IN  IF p.ok THEN <<p.val[1], p.val[2]>> ELSE <<0, 0>>

\* NetStats with a malformed line left out of the entries
NetStats_SkipMalformed(o) ==
    IF o.raised THEN [i \in 1..3 |-> <<0, 0>>]
    ELSE LET good == SelectSeq(o.out, LAMBDA l : Unpack(l, 2).ok)
         IN  [i \in DOMAIN good |-> NetEntry(good[i])]

\* the network try / bare except
NetStats(o) ==
    IF o.raised THEN [i \in 1..3 |-> <<0, 0>>]
    ELSE [i \in DOMAIN o.out |-> NetEntry(o.out[i])]

\* x.replace('G', '') on every token of a line
DiskTokens(line) == [i \in DOMAIN line |-> ReplaceG(line[i])]

\* the loop over the lines of the disk output: a malformed row is skipped
RECURSIVE DiskRows(_)
DiskRows(lines) ==
    IF lines = <<>> THEN <<>>
    ELSE LET p == Unpack(DiskTokens(Head(lines)), 3)
         IN  IF p.ok THEN <<p.val>> \o DiskRows(Tail(lines)) ELSE DiskRows(Tail(lines))

\* DiskStats with a malformed row kept as a row of zeros
DiskStats_ZeroPad(o) ==
    IF o.raised THEN << <<0, 0, 0>> >>
    ELSE [i \in DOMAIN o.out |->
            LET p == Unpack(DiskTokens(o.out[i]), 3)
            IN  IF p.ok THEN p.val ELSE <<0, 0, 0>>]

\* the disk try / bare except
DiskStats(o) == IF o.raised THEN << <<0, 0, 0>> >> ELSE DiskRows(o.out)

\* xs or [default]
OrList(xs, d) == IF xs = <<>> THEN <<d>> ELSE xs

\* Stats with the sum not divided by the length
Stats_NoDivision(xs) ==
    IF Len(xs) = 0 THEN Err(ZeroDivisionError)
    ELSE Ok([avg |-> Round2(Sum(xs), 1),
             max |-> Round2(Max(xs), 1),
             min |-> Round2(Min(xs), 1)])

\* sum(xs) / len(xs), max(xs), min(xs), each then rounded to 2 decimals
Stats(xs) ==
    IF Len(xs) = 0 THEN Err(ZeroDivisionError)
    ELSE Ok([avg |-> Round2(Sum(xs), Len(xs)),
             max |-> Round2(Max(xs), 1),
             min |-> Round2(Min(xs), 1)])

StatusSuccess == <<"success">>
StatusError(e) == <<"error", ":", " ", e>>

\* the dict returned at the end of the try
SuccessRecord(host, cpu, rx, tx) ==
    [host |-> host,
     cpu_cores |-> cpu_cores,
     cpu_usage_avg |-> cpu.avg,
     cpu_usage_max |-> cpu.max,
     cpu_usage_min |-> cpu.min,
     memory_total_gb |-> total_mem_gb,
     memory_used_gb |-> used_mem_gb,
     memory_free_gb |-> free_mem_gb,
     memory_usage |-> mem_usage,
     network_rx_kb_avg |-> rx.avg,
     network_rx_kb_max |-> rx.max,
     network_rx_kb_min |-> rx.min,
     network_tx_kb_avg |-> tx.avg,
     network_tx_kb_max |-> tx.max,
     network_tx_kb_min |-> tx.min,
     disk_total_gb |-> Sum(Column(disk_stats, 1)),
     disk_used_gb |-> Sum(Column(disk_stats, 2)),
     disk_free_gb |-> Sum(Column(disk_stats, 3)),
     timestamp |-> now,
     status |-> StatusSuccess]

\* FailureRecord carrying a metric gathered before the exception
FailureRecord_KeepsMetrics(host, e) ==
    [host |-> host, cpu_cores |-> cpu_cores, status |-> StatusError(e), timestamp |-> now]

\* the dict returned by the except clause
FailureRecord(host, e) ==
    [host |-> host, status |-> StatusError(e), timestamp |-> now]

Host == servers_info[idx].host

\* RaiseTo with the exception leaving get_server_stats
RaiseTo_Propagates(e) == /\ exc' = e
                         /\ pc' = "raised"

\* control leaves the try for the except clause with exception e
RaiseTo(e) == /\ exc' = e
              /\ pc' = "except"

Deviates(o, ref) == o.raised \/ o.out \notin ref
Cost(cmd, o, ref) == IF Deviates(o, ref) /\ cmd \notin deviant THEN 1 ELSE 0

\* ssh.exec_command(cmd) and the read of its stdout: the outcomes the run may
\* still see
Exec(cmd, texts, ref) ==
    { o \in Outcomes(texts) : anomalies + Cost(cmd, o, ref) <= MaxAnomalies }

\* the bookkeeping of the anomalies for the outcome o of cmd
Account(cmd, o, ref) ==
    /\ anomalies' = anomalies + Cost(cmd, o, ref)
    /\ deviant' = IF Deviates(o, ref) THEN deviant \cup {cmd} ELSE deviant

\* collect_all_servers_data: the for loop takes the next server and calls
\* get_server_stats
CallStats ==
    /\ pc = "loop"
    /\ idx <= Len(servers_info)
    /\ pc' = "connect"
    /\ ssh' = 0
    /\ execd' = <<>>
    /\ stdout' = None
    /\ cpu_output' = <<>>
    /\ rep' = 0
    /\ cpu_cores' = 0
    /\ cpu_samples' = <<>>
    /\ total_mem_gb' = 0
    /\ used_mem_gb' = 0
    /\ free_mem_gb' = 0
    /\ mem_usage' = 0
    /\ net_stats' = <<>>
    /\ disk_stats' = <<>>
    /\ exc' = NoExc
    /\ ret' = None
    /\ deviant' = {}
    /\ UNCHANGED <<main_vars, sessions, anomalies, now, log>>

\* Connect with the connection error swallowed: the sampling goes on
Connect_ErrorSwallowed ==
    /\ pc = "connect"
    /\ \/ /\ sessions' = Append(sessions, [host |-> Host, open |-> TRUE])
          /\ ssh' = Len(sessions) + 1
          /\ UNCHANGED anomalies
       \/ /\ anomalies < MaxAnomalies
          /\ anomalies' = anomalies + 1
          /\ UNCHANGED <<sessions, ssh>>
    /\ pc' = "nproc"
    /\ UNCHANGED <<main_vars, execd, stdout, deviant, locals, exc, ret, now, log>>

\* ssh.connect(...)
Connect ==
    /\ pc = "connect"
    /\ \/ /\ sessions' = Append(sessions, [host |-> Host, open |-> TRUE])
          /\ ssh' = Len(sessions) + 1
          /\ pc' = "nproc"
          /\ UNCHANGED <<exc, anomalies>>
       \/ /\ anomalies < MaxAnomalies
          /\ anomalies' = anomalies + 1
          /\ \E e \in ConnectErrors : RaiseTo(e)
          /\ UNCHANGED <<sessions, ssh>>
    /\ UNCHANGED <<main_vars, execd, stdout, deviant, locals, ret, now, log>>

\* nproc
CoreCountStep ==
    /\ pc = "nproc"
    /\ execd' = Append(execd, "nproc")
    /\ \E o \in Exec("nproc", NprocTexts, NprocRef) :
         /\ stdout' = o
         /\ Account("nproc", o, NprocRef)
         /\ IF o.raised THEN RaiseTo(SSHException) /\ UNCHANGED cpu_cores
            ELSE LET n == CoreCount(o.out)
                 IN  IF n.ok THEN /\ cpu_cores' = n.val
                                  /\ pc' = "cpu"
                                  /\ UNCHANGED exc
                     ELSE RaiseTo(n.err) /\ UNCHANGED cpu_cores
    /\ UNCHANGED <<main_vars, sessions, ssh, rep, cpu_samples, total_mem_gb, used_mem_gb,
                   free_mem_gb, mem_usage, net_stats, disk_stats, cpu_output, ret, now, log>>

\* the try / except of one iteration of for _ in range(3)
CpuRepeat ==
    /\ pc = "cpu"
    /\ \E p \in Exec("top", CpuTexts, CpuRef) :
         /\ cpu_output' = p.out
         /\ IF ~RunsSecondary(p)
            THEN /\ execd' = Append(execd, "top")
                 /\ stdout' = p
                 /\ Account("top", p, CpuRef)
                 /\ IF p.raised
                    THEN RaiseTo(SSHException) /\ UNCHANGED cpu_samples
                    ELSE /\ cpu_samples' = AppendSample(cpu_samples, CpuUsage(p.out, <<>>))
                         /\ pc' = "cpu_sleep"
                         /\ UNCHANGED exc
            ELSE \E q \in Outcomes(CpuTexts) :
                 LET cost == Cost("top", p, CpuRef) + Cost("mpstat", q, CpuRef)
                 IN  /\ anomalies + cost <= MaxAnomalies
                     /\ execd' = execd \o <<"top", "mpstat">>
                     /\ stdout' = q
                     /\ anomalies' = anomalies + cost
                     /\ deviant' = deviant \cup {"top"} \cup
                                     (IF Deviates(q, CpuRef) THEN {"mpstat"} ELSE {})
                     /\ IF q.raised
                        THEN RaiseTo(SSHException) /\ UNCHANGED cpu_samples
                        ELSE /\ cpu_samples' =
                                  AppendSample(cpu_samples, CpuUsage(p.out, q.out))
                             /\ pc' = "cpu_sleep"
                             /\ UNCHANGED exc
    /\ UNCHANGED <<main_vars, sessions, ssh, rep, cpu_cores, total_mem_gb, used_mem_gb,
                   free_mem_gb, mem_usage, net_stats, disk_stats, ret, now, log>>

\* time.sleep(1) at the end of the iteration, and the loop test; cpu_output is
\* dead from here until the next iteration rebinds it
CpuSleep ==
    /\ pc = "cpu_sleep"
    /\ now' = now + 1
    /\ rep' = rep + 1
    /\ cpu_output' = <<>>
    /\ pc' = IF rep + 1 < Repeats THEN "cpu" ELSE "mem"
    /\ UNCHANGED <<main_vars, sessions, ssh, execd, stdout, anomalies, deviant, cpu_cores,
                   cpu_samples, total_mem_gb, used_mem_gb, free_mem_gb, mem_usage, net_stats,
                   disk_stats, exc, ret, log>>

\* free -g
MemoryStep ==
    /\ pc = "mem"
    /\ execd' = Append(execd, "free")
    /\ \E o \in Exec("free", MemTexts, MemRef) :
         /\ stdout' = o
         /\ Account("free", o, MemRef)
         /\ IF o.raised
            THEN /\ RaiseTo(SSHException)
                 /\ UNCHANGED <<total_mem_gb, used_mem_gb, free_mem_gb, mem_usage>>
            ELSE LET m == MemParse(o.out)
                 IN  IF m.ok
                     THEN /\ total_mem_gb' = m.val.total
                          /\ used_mem_gb' = m.val.used
                          /\ free_mem_gb' = m.val.free
                          /\ mem_usage' = m.val.usage
                          /\ pc' = "net"
                          /\ UNCHANGED exc
                     ELSE /\ RaiseTo(m.err)
                          /\ UNCHANGED <<total_mem_gb, used_mem_gb, free_mem_gb, mem_usage>>
    /\ UNCHANGED <<main_vars, sessions, ssh, rep, cpu_cores, cpu_samples, net_stats,
                   disk_stats, cpu_output, ret, now, log>>

\* sar -n DEV 1 3
NetworkStep ==
    /\ pc = "net"
    /\ execd' = Append(execd, "sar")
    /\ \E o \in Exec("sar", NetOutputs, NetRef) :
         /\ stdout' = ReadLines(o)
         /\ Account("sar", o, NetRef)
         /\ net_stats' = NetStats(o)
    /\ pc' = "disk"
    /\ UNCHANGED <<main_vars, sessions, ssh, rep, cpu_cores, cpu_samples, total_mem_gb,
                   used_mem_gb, free_mem_gb, mem_usage, disk_stats, cpu_output, exc, ret,
                   now, log>>

\* df -BG
DiskStep ==
    /\ pc = "disk"
    /\ execd' = Append(execd, "df")
    /\ \E o \in Exec("df", DiskOutputs, DiskRef) :
         /\ stdout' = ReadLines(o)
         /\ Account("df", o, DiskRef)
         /\ disk_stats' = DiskStats(o)
    /\ pc' = "close"
    /\ UNCHANGED <<main_vars, sessions, ssh, rep, cpu_cores, cpu_samples, total_mem_gb,
                   used_mem_gb, free_mem_gb, mem_usage, net_stats, cpu_output, exc, ret,
                   now, log>>

\* ssh.close(): the session and its channel files are closed
Close ==
    /\ pc = "close"
    /\ sessions' = [sessions EXCEPT ![ssh].open = FALSE]
    /\ stdout' = None
    /\ pc' = "assemble"
    /\ UNCHANGED <<main_vars, ssh, execd, anomalies, deviant, locals, exc, ret, now, log>>

\* the statistics and the return of the success dict
Assemble ==
    /\ pc = "assemble"
    /\ LET net == OrList(net_stats, <<0, 0>>)
           cpu == Stats(OrList(cpu_samples, 0))
           rx == Stats(Column(net, 1))
           tx == Stats(Column(net, 2))
       IN  /\ cpu_samples' = OrList(cpu_samples, 0)
           /\ net_stats' = net
           /\ IF cpu.ok /\ rx.ok /\ tx.ok
              THEN /\ ret' = SuccessRecord(Host, cpu.val, rx.val, tx.val)
                   /\ pc' = "append"
                   /\ UNCHANGED exc
              ELSE /\ RaiseTo(ZeroDivisionError)
                   /\ UNCHANGED ret
    /\ UNCHANGED <<main_vars, sessions, ssh, execd, stdout, anomalies, deviant, rep, cpu_cores,
                   total_mem_gb, used_mem_gb, free_mem_gb, mem_usage, disk_stats,
                   cpu_output, now, log>>

\* Except re-raising the exception to the caller
Except_Reraise ==
    /\ pc = "except"
    /\ log' = Append(log, "get_server_stats")
    /\ pc' = "raised"
    /\ UNCHANGED <<main_vars, sessions, ssh, execd, stdout, anomalies, deviant, locals, exc,
                   ret, now>>

\* except Exception as e: log and return the failure dict
Except ==
    /\ pc = "except"
    /\ log' = Append(log, "get_server_stats")
    /\ ret' = FailureRecord(Host, exc)
    /\ pc' = "append"
    /\ UNCHANGED <<main_vars, sessions, ssh, execd, stdout, anomalies, deviant, locals, exc, now>>

\* The client of a call that returned without ssh.close() is no longer
\* referenced; the interpreter may reclaim it and close its transport, at a
\* moment the program does not control, or never.
Finalize ==
    /\ \E s \in DOMAIN sessions :
         /\ sessions[s].open
         /\ (s # ssh \/ pc \in {"append", "sleep", "loop", "export", "done"})
         /\ sessions' = [sessions EXCEPT ![s].open = FALSE]
    /\ UNCHANGED <<main_vars, pc, ssh, execd, stdout, anomalies, deviant, locals, exc, ret,
                   now, log>>

\* -------------------------------- ServerMonitor.collect_all_servers_data
\* AppendResult with failure records dropped
AppendResult_SkipFailures ==
    /\ pc = "append"
    /\ results' = IF "cpu_cores" \in DOMAIN ret THEN Append(results, ret) ELSE results
    /\ pc' = "sleep"
    /\ UNCHANGED <<config_file, config, servers_info, idx, frame, file, sessions, ssh,
                   execd, stdout, anomalies, deviant, locals, exc, ret, now, log>>

\* self.results.append(result)
AppendResult ==
    /\ pc = "append"
    /\ results' = Append(results, ret)
    /\ pc' = "sleep"
    /\ UNCHANGED <<config_file, config, servers_info, idx, frame, file, sessions, ssh,
                   execd, stdout, anomalies, deviant, locals, exc, ret, now, log>>

\* Sleep with the pacing delay only after a success record
Sleep_OnlyAfterSuccess ==
    /\ pc = "sleep"
    /\ now' = IF "cpu_cores" \in DOMAIN ret THEN now + 1 ELSE now
    /\ idx' = idx + 1
    /\ pc' = "loop"
    /\ UNCHANGED <<config_file, config, servers_info, results, frame, file, sessions, ssh,
                   execd, stdout, anomalies, deviant, locals, exc, ret, log>>

\* time.sleep(1), then the loop moves on
Sleep ==
    /\ pc = "sleep"
    /\ now' = now + 1
    /\ idx' = idx + 1
    /\ pc' = "loop"
    /\ UNCHANGED <<config_file, config, servers_info, results, frame, file, sessions, ssh,
                   execd, stdout, anomalies, deviant, locals, exc, ret, log>>

\* the loop is exhausted; main goes on to export_to_excel
LoopExit ==
    /\ pc = "loop"
    /\ idx > Len(servers_info)
    /\ pc' = "export"
    /\ UNCHANGED <<main_vars, sessions, ssh, execd, stdout, anomalies, deviant, locals, exc, ret,
                   now, log>>

\* ------------------------------------------ ServerMonitor.export_to_excel
NaN == "NaN"

\* pd.DataFrame(list of dicts): the union of the keys, NaN where a dict has none
DataFrame(rs) ==
    LET cols == UNION { DOMAIN rs[i] : i \in DOMAIN rs }
    IN  [columns |-> cols,
         rows |-> [i \in DOMAIN rs |->
                     [c \in cols |-> IF c \in DOMAIN rs[i] THEN rs[i][c] ELSE NaN]]]

\* Series.str.contains('error') on one status
StrContainsError(status) == \E i \in DOMAIN status : status[i] = "error"

\* AnyError with all() in place of any()
AnyError_All(df) ==
    /\ "status" \in df.columns
    /\ \A i \in DOMAIN df.rows : StrContainsError(df.rows[i]["status"])

\* 'status' in df.columns and df['status'].str.contains('error').any()
AnyError(df) ==
    /\ "status" \in df.columns
    /\ \E i \in DOMAIN df.rows : StrContainsError(df.rows[i]["status"])

ReducedColumns == { "host", "timestamp", "status" }

columns_mapping ==
    [host |-> "server address", cpu_cores |-> "CPU cores",
     cpu_usage_avg |-> "CPU avg (%)", cpu_usage_max |-> "CPU max (%)",
     cpu_usage_min |-> "CPU min (%)", memory_total_gb |-> "memory total (GB)",
     memory_used_gb |-> "memory used (GB)", memory_free_gb |-> "memory free (GB)",
     memory_usage |-> "memory usage (%)", network_rx_kb_avg |-> "rx avg (KB/s)",
     network_rx_kb_max |-> "rx max (KB/s)", network_rx_kb_min |-> "rx min (KB/s)",
     network_tx_kb_avg |-> "tx avg (KB/s)", network_tx_kb_max |-> "tx max (KB/s)",
     network_tx_kb_min |-> "tx min (KB/s)", disk_total_gb |-> "disk total (GB)",
     disk_used_gb |-> "disk used (GB)", disk_free_gb |-> "disk free (GB)",
     timestamp |-> "collected at", status |-> "status"]

\* keep the columns cs of df and relabel them
Relabel(df, cs) ==
    LET key(l) == CHOOSE c \in cs : columns_mapping[c] = l
        labels == { columns_mapping[c] : c \in cs }
    IN  [columns |-> labels,
         rows |-> [i \in DOMAIN df.rows |-> [l \in labels |-> df.rows[i][key(l)]]]]

\* the schema decision of export_to_excel
Render(rs) ==
    LET df == DataFrame(rs)
    IN  IF AnyError(df) THEN Relabel(df, ReducedColumns) ELSE Relabel(df, df.columns)

\* Export with the report dropped when the write fails
Export_DropsReportOnFailure ==
    /\ pc = "export"
    /\ frame' = Render(results)
    /\ \/ /\ file' = frame'
          /\ UNCHANGED <<log, results>>
       \/ /\ log' = Append(log, "export_to_excel")
          /\ results' = <<>>
          /\ UNCHANGED file
    /\ pc' = "done"
    /\ UNCHANGED <<config_file, config, servers_info, idx, sessions, ssh, execd,
                   stdout, anomalies, deviant, locals, exc, ret, now>>

\* export_to_excel: df.to_excel succeeds, or raises and the error is logged
Export ==
    /\ pc = "export"
    /\ frame' = Render(results)
    /\ \/ /\ file' = frame'
          /\ UNCHANGED log
       \/ /\ log' = Append(log, "export_to_excel")
          /\ UNCHANGED file
    /\ pc' = "done"
    /\ UNCHANGED <<config_file, config, servers_info, results, idx, sessions, ssh, execd,
                   stdout, anomalies, deviant, locals, exc, ret, now>>

\* ------------------------------------------------------------- the program
Next ==
    \/ Construct
    \/ CallStats
    \/ Connect
    \/ CoreCountStep
    \/ CpuRepeat
    \/ CpuSleep
    \/ MemoryStep
    \/ NetworkStep
    \/ DiskStep
    \/ Close
    \/ Assemble
    \/ Except
    \/ Finalize
    \/ AppendResult
    \/ Sleep
    \/ LoopExit
    \/ Export

Spec == Init /\ [][Next]_vars

\* every step terminates: no command blocks for ever
FairSpec == Spec /\ WF_vars(Next)

\* ================================================================== claims
FailureFields == { "host", "timestamp", "status" }
AllFields == DOMAIN columns_mapping
IsFailure(r) == DOMAIN r = FailureFields
IsSuccess(r) == DOMAIN r = AllFields /\ r.status = StatusSuccess
Configured == config.servers
Returned == pc = "append"                  \* get_server_stats has just returned ret
Connected == ssh # 0                       \* the connect of this call succeeded
LastRaised == stdout # None /\ stdout.raised
LastText == stdout # None /\ ~stdout.raised

\* C1: once collect_all_servers_data has run, results holds one entry per
\* configured server and the i-th entry is about the i-th configured host,
\* whatever happened on each host.
C1_OneEntryPerHostInOrder ==
    pc \in {"export", "done"} =>
        /\ Len(results) = Len(Configured)
        /\ \A i \in DOMAIN results : results[i].host = Configured[i].host

C1_Witness ==
    /\ pc = "export"
    /\ Len(results) = 2
    /\ results[1].host # results[2].host
    /\ IsFailure(results[1])
    /\ IsSuccess(results[2])

\* C2: whenever get_server_stats returns after a successful connect, the
\* session it opened is closed.
C2_SessionClosedOnReturn ==
    (Returned /\ Connected) => ~sessions[ssh].open

\* C3: a core-count output that is empty or is no integer gives cpu_cores = 1
\* and the sampling goes on to the CPU step; it never ends in the except clause.
C3_BadCoreCountDefaultsToOne ==
    (execd = <<"nproc">> /\ LastText /\ (stdout.out = <<>> \/ ~int(stdout.out).ok)) =>
        (pc = "cpu" /\ cpu_cores = 1)

\* C4: when the connect fails, get_server_stats returns the failure record with
\* the host, a timestamp and a status that carries the error text, and no
\* command was issued on the host.
C4_ConnectFailureShortCircuits ==
    /\ (pc \in {"except", "append"} /\ ~Connected) => execd = <<>>
    /\ (Returned /\ ~Connected) =>
          /\ IsFailure(ret)
          /\ ret.host = Configured[idx].host
          /\ ret.timestamp = now
          /\ \E e \in ConnectErrors : ret.status = StatusError(e)

C4_Witness ==
    /\ Returned
    /\ ~Connected
    /\ ret.status = StatusError("timed out")
    /\ idx = 2

\* C5: the exported frame has the reduced three-column schema exactly when some
\* entry of results is a failure record; when every entry is a success record it
\* has the full metrics schema; either way it has one row per entry.
ReducedLabels == { columns_mapping[c] : c \in FailureFields }
FullLabels == { columns_mapping[c] : c \in AllFields }

C5_ReducedSchemaIffAnyFailure ==
    pc = "done" =>
        /\ Len(frame.rows) = Len(results)
        /\ (frame.columns = ReducedLabels) <=> (\E i \in DOMAIN results : IsFailure(results[i]))
        /\ (results # <<>> /\ \A i \in DOMAIN results : IsSuccess(results[i]))
              => frame.columns = FullLabels
        /\ \A i \in DOMAIN frame.rows : DOMAIN frame.rows[i] = frame.columns

C5_Witness ==
    /\ pc = "done"
    /\ Len(results) = 2
    /\ IsSuccess(results[1])
    /\ IsFailure(results[2])
    /\ frame.columns = ReducedLabels
    /\ DOMAIN frame.rows[1] = ReducedLabels

\* C6: once the monitor is constructed, a run of main reaches the export step
\* and hands to_excel a frame with one row per configured host, whatever
\* happens on the hosts; when every host failed the frame has the reduced
\* schema; no exception escapes main on the way.
AllHostsFailed == results # <<>> /\ \A i \in DOMAIN results : IsFailure(results[i])

ExportAttempted ==
    /\ pc = "done"
    /\ frame # NoFrame
    /\ Len(frame.rows) = Len(Configured)
    /\ AllHostsFailed => frame.columns = ReducedLabels

C6_MainAlwaysExports == (pc = "loop") ~> ExportAttempted

C6_Witness ==
    /\ ExportAttempted
    /\ Len(Configured) = 2
    /\ AllHostsFailed
    /\ sessions = <<>>

\* C7: with the session connected and every command returning text, a malformed
\* or empty output of the CPU, memory, network or disk command never takes the
\* sampling to the except clause (only the core-count step can), and once the
\* core-count step is passed get_server_stats returns the success record with
\* every metrics field.
C7_ParseErrorsAbsorbed ==
    /\ (pc = "except" /\ Connected /\ LastText) => execd = <<"nproc">>
    /\ (Returned /\ Connected /\ Len(execd) > 1 /\ ~LastRaised) => IsSuccess(ret)

C7_Witness ==
    /\ Returned
    /\ IsSuccess(ret)
    /\ deviant = {"free", "df"}
    /\ ret.memory_total_gb = 0
    /\ ret.disk_total_gb = 0

\* C8: after the memory step, when the output does not parse as three numbers
\* or its first number is zero, total, used, free and usage are all 0.
MemUnparsedOrZeroTotal ==
    LET p == Unpack(stdout.out, 3) IN ~p.ok \/ p.val[1] = 0

C8_ZeroTotalZeroesMemory ==
    (pc = "net" /\ MemUnparsedOrZeroTotal) =>
        (total_mem_gb = 0 /\ used_mem_gb = 0 /\ free_mem_gb = 0 /\ mem_usage = 0)

\* C9: a repeat whose chosen output fails to parse appends 0.0 and the loop goes
\* on (only a raising command leaves it), every repeat appends exactly one
\* sample, and a success record is built from exactly 3 samples.
ChosenUsage == CpuUsage(cpu_output, stdout.out)

C9_ThreeCpuSamples ==
    /\ pc = "cpu_sleep" =>
          /\ Len(cpu_samples) = rep + 1
          /\ cpu_samples[rep + 1] = IF ChosenUsage.ok THEN ChosenUsage.val ELSE 0
    /\ (pc = "except" /\ execd # <<>> /\ execd[Len(execd)] \in {"top", "mpstat"}) => LastRaised
    /\ (Returned /\ IsSuccess(ret)) => Len(cpu_samples) = Repeats

C9_Witness ==
    /\ Returned
    /\ IsSuccess(ret)
    /\ cpu_samples = <<250, 0, 250>>

Last(s) == s[Len(s)]

\* C11: after the disk step disk_stats holds exactly the well-formed rows of the
\* output, in order (a malformed row adds no row, not a row of zeros, and is no
\* fault), so the three disk figures of the success record are the column sums
\* over the well-formed rows; rows 10 4 6 / garbage / 20 5 15 give 30, 9, 21.
WellFormedRow(line) ==
    Len(line) = 3 /\ \A i \in 1..3 : line[i].kind \in {"int", "dec", "gb"}
RowValues(line) == [i \in 1..3 |-> line[i].val]
DiskExample ==
    DiskStats([raised |-> FALSE,
               out |-> << <<Int_(10), Int_(4), Int_(6)>>, <<Bad>>, <<Int_(20), Int_(5), Int_(15)>> >>])

C11_DiskSumsOverWellFormedRows ==
    /\ (pc = "close" /\ LastText) =>
          LET good == SelectSeq(stdout.lines, WellFormedRow)
          IN  /\ Len(disk_stats) = Len(good)
              /\ \A i \in DOMAIN good : disk_stats[i] = RowValues(good[i])
    /\ (execd # <<>> /\ Last(execd) = "df") => pc # "except"
    /\ (Returned /\ IsSuccess(ret)) =>
          /\ ret.disk_total_gb = Sum([i \in DOMAIN disk_stats |-> disk_stats[i][1]])
          /\ ret.disk_used_gb = Sum([i \in DOMAIN disk_stats |-> disk_stats[i][2]])
          /\ ret.disk_free_gb = Sum([i \in DOMAIN disk_stats |-> disk_stats[i][3]])
    /\ Len(DiskExample) = 2
    /\ Sum(Column(DiskExample, 1)) = 30 * Scale
    /\ Sum(Column(DiskExample, 2)) = 9 * Scale
    /\ Sum(Column(DiskExample, 3)) = 21 * Scale

C11_Witness ==
    /\ pc = "close"
    /\ LastText
    /\ stdout.lines = << <<Bad>>, <<Gb_(20), Gb_(5), Gb_(15)>> >>
    /\ disk_stats = << <<20 * Scale, 5 * Scale, 15 * Scale>> >>

\* C12: after the network step there is one entry per output line, the parsed
\* pair of a well-formed line and (0, 0) of a malformed one; when the command
\* raises the entries are exactly three (0, 0) and the sampling goes on to the
\* disk step; the rx and tx figures are computed without a division by zero,
\* also when the command printed no line.
WellFormedPair(line) ==
    Len(line) = 2 /\ \A i \in 1..2 : line[i].kind \in {"int", "dec"}

C12_NetworkEntries ==
    /\ (pc = "disk" /\ LastText) =>
          /\ Len(net_stats) = Len(stdout.lines)
          /\ \A i \in DOMAIN net_stats :
                net_stats[i] = IF WellFormedPair(stdout.lines[i])
                               THEN <<stdout.lines[i][1].val, stdout.lines[i][2].val>>
                               ELSE <<0, 0>>
    /\ (pc = "disk" /\ LastRaised) => net_stats = << <<0, 0>>, <<0, 0>>, <<0, 0>> >>
    /\ (execd # <<>> /\ Last(execd) = "sar") => pc = "disk"
    /\ pc = "except" => exc # ZeroDivisionError
    /\ (pc = "append" /\ Connected /\ Last(execd) = "df") =>
          /\ IsSuccess(ret)
          /\ net_stats # <<>>
          /\ ret.network_rx_kb_min <= ret.network_rx_kb_avg
          /\ ret.network_rx_kb_avg <= ret.network_rx_kb_max
          /\ ret.network_tx_kb_min <= ret.network_tx_kb_avg
          /\ ret.network_tx_kb_avg <= ret.network_tx_kb_max

C12_Witness ==
    /\ Returned
    /\ IsSuccess(ret)
    /\ "sar" \in deviant
    /\ net_stats = << <<0, 0>>, <<0, 0>>, <<0, 0>> >>
    /\ ret.network_rx_kb_avg = 0

\* C13: _process_servers_config returns one descriptor per configured record,
\* in order; username, password and port are the record's own value when the
\* record has the key, else the fleet default, else '' and 22; defaults
\* {username: admin, port: 22} and record {host: 10.0.0.1} resolve to
\* 10.0.0.1, admin, 22.
Resolved(rec, dflt, k, builtin) ==
    IF k \in DOMAIN rec THEN rec[k] ELSE IF k \in DOMAIN dflt THEN dflt[k] ELSE builtin

C13_DescriptorsInheritDefaults ==
    /\ pc \notin {"construct", "raised"} =>
          /\ Len(servers_info) = Len(Configured)
          /\ \A i \in DOMAIN servers_info :
                LET d == servers_info[i]
                    rec == Configured[i]
                    dflt == config.default_credentials
                IN  /\ DOMAIN d = {"host", "username", "password", "port"}
                    /\ d.host = rec.host
                    /\ d.username = Resolved(rec, dflt, "username", "")
                    /\ d.password = Resolved(rec, dflt, "password", "")
                    /\ d.port = Resolved(rec, dflt, "port", 22)
    /\ ProcessServer([host |-> "10.0.0.1"], [username |-> "admin", port |-> 22])
          = [host |-> "10.0.0.1", username |-> "admin", password |-> "", port |-> 22]

C13_Witness ==
    /\ pc = "loop"
    /\ servers_info =
          << [host |-> "10.0.0.2", username |-> "root", password |-> "pw", port |-> 2222],
             [host |-> "10.0.0.1", username |-> "admin", password |-> "", port |-> 2200] >>

\* C14: when some configured record has no host, the construction of the
\* monitor ends with an error and nothing else happens in the run: no connect
\* is attempted on any host (not even on one listed before the faulty record),
\* no command is issued, no result is collected and no report is written.
SomeRecordOmitsHost ==
    /\ config_file.readable
    /\ \E i \in DOMAIN config_file.content.servers :
          "host" \notin DOMAIN config_file.content.servers[i]

C14_MissingHostAbortsBeforeContact ==
    SomeRecordOmitsHost =>
        /\ pc \in {"construct", "raised"}
        /\ pc = "raised" => exc = KeyError
        /\ sessions = <<>>
        /\ anomalies = 0
        /\ execd = <<>>
        /\ results = <<>>
        /\ servers_info = <<>>
        /\ file = NoFile

C14_Witness ==
    /\ pc = "raised"
    /\ exc = KeyError
    /\ Len(config.servers) = 2
    /\ "host" \in DOMAIN config.servers[1]
    /\ "host" \notin DOMAIN config.servers[2]
    /\ sessions = <<>>

\* C15: the step of export_to_excel leaves results as it was, whether the write
\* succeeds or fails; a failed write is logged and the call returns normally;
\* rendering the kept results again gives the same frame.
C15_ExportKeepsResults ==
    [][pc = "export" =>
          /\ results' = results
          /\ pc' \in {"export", "done"}
          /\ pc' = "done" =>
                /\ Render(results') = frame'
                /\ \/ file' = frame' /\ log' = log
                   \/ file' = file /\ log' = Append(log, "export_to_excel")]_vars

C15_Witness ==
    /\ pc = "done"
    /\ file = NoFile
    /\ log # <<>>
    /\ Last(log) = "export_to_excel"
    /\ Len(results) = 2
    /\ frame = Render(results)

\* C16: every record returned by get_server_stats, and every entry of results,
\* has exactly one of two shapes: status 'success' with every metrics field, or
\* a status that starts with 'error:' with only host, timestamp and status.
StartsWithError(status) == Len(status) >= 2 /\ status[1] = "error" /\ status[2] = ":"
SuccessShape(r) == DOMAIN r = AllFields /\ r.status = StatusSuccess
FailureShape(r) == DOMAIN r = FailureFields /\ StartsWithError(r.status)
OneVariant(r) == SuccessShape(r) # FailureShape(r)

C16_ExactlyOneVariant ==
    /\ ret # None => OneVariant(ret)
    /\ \A i \in DOMAIN results : OneVariant(results[i])

C16_Witness ==
    /\ Len(results) = 2
    /\ FailureShape(results[1])
    /\ results[1].status = StatusError(SSHException)
    /\ SuccessShape(results[2])
    /\ Len(sessions) = 2

\* C17: in every CPU repeat the secondary command is run exactly when the
\* primary command printed nothing; a primary output that is not empty is the
\* one parsed (0.0 when it does not parse) and the secondary is not run; the
\* primary is run once per repeat.
C17_SecondaryIffPrimaryEmpty ==
    /\ pc = "cpu_sleep" =>
          /\ (Last(execd) = "mpstat") <=> (cpu_output = <<>>)
          /\ cpu_output # <<>> =>
                /\ Last(execd) = "top"
                /\ cpu_samples[rep + 1] =
                      IF float(cpu_output).ok THEN float(cpu_output).val ELSE 0
          /\ Cardinality({i \in DOMAIN execd : execd[i] = "top"}) = rep + 1
    /\ \A i \in DOMAIN execd : execd[i] = "mpstat" => (i > 1 /\ execd[i - 1] = "top")
    /\ (pc = "except" /\ execd # <<>> /\ Last(execd) = "mpstat") => cpu_output = <<>>

C17_Witness ==
    /\ pc = "cpu_sleep"
    /\ rep = 2
    /\ execd = <<"nproc", "top", "top", "top", "mpstat">>
    /\ cpu_samples[1] = 0
    /\ cpu_samples[2] = 250

\* C18: at every point of a run no two open sessions are to the same host, also
\* when a host is configured twice and its first sampling ended in a failure
\* record after a successful connect.
C18_OneOpenSessionPerHost ==
    \A i, j \in DOMAIN sessions :
        (i # j /\ sessions[i].host = sessions[j].host) =>
            ~(sessions[i].open /\ sessions[j].open)

\* C19: for each host the order is sample, append, pacing delay: a connect
\* starts only from the loop head with every earlier host's result appended;
\* the return of get_server_stats is followed by the append of that very
\* record, the append by the delay, the delay by the loop head, after a failure
\* record as after a success record.
C19_SampleAppendDelay ==
    [][pc' # pc =>
          /\ pc' = "connect" => (pc = "loop" /\ Len(results) = idx - 1)
          /\ pc' = "append" => (pc \in {"assemble", "except"} /\ ret'.host = Host)
          /\ pc = "append" => (pc' = "sleep" /\ results' = Append(results, ret) /\ now' = now)
          /\ pc = "sleep" =>
                (pc' = "loop" /\ now' = now + 1 /\ idx' = idx + 1 /\ Len(results) = idx
                              /\ results' = results)
          /\ pc' = "loop" => pc \in {"construct", "sleep"}]_vars

C19_Witness ==
    /\ pc = "connect"
    /\ idx = 2
    /\ Len(results) = 1
    /\ IsFailure(results[1])
    /\ sessions = <<>>
    /\ now = 1

\* C20 as stated: whatever raises in get_server_stats (the connect, executing
\* or reading any command, a parse error that is not caught) ends in the
\* failure record of the host; no exception reaches the fleet loop.
C20_EveryExceptionFailsTheHost ==
    /\ pc = "raised" => idx = 0
    /\ (pc = "append" /\ exc # NoExc) => (FailureShape(ret) /\ ret.host = Host)
    /\ LastRaised => (pc = "except" \/ FailureShape(ret))

\* C20 amended: an exception that no step's own handler catches (the connect,
\* a core-count, CPU or memory command that fails to execute, the core-count
\* parse) ends in the failure record of the host, which carries none of the
\* metrics gathered; an exception of executing or reading the network or disk
\* command is caught by that step and the sampling goes on; no exception
\* reaches the fleet loop.
AbsorbingSteps == {"sar", "df"}

C20_UnabsorbedExceptionFailsTheHost ==
    /\ pc = "raised" => (idx = 0 /\ exc = KeyError)
    /\ (pc \notin {"construct", "raised", "except"} /\ exc # NoExc) =>
          (FailureShape(ret) /\ ret.status = StatusError(exc))
    /\ (pc = "append" /\ exc # NoExc) => ret.host = Host
    /\ (LastRaised /\ Last(execd) \notin AbsorbingSteps) =>
          (exc = SSHException /\ (pc = "except" \/ FailureShape(ret)))
    /\ (LastRaised /\ Last(execd) \in AbsorbingSteps) =>
          (exc = NoExc /\ pc \in {"disk", "close"} /\ ret = None)
    /\ (LastText /\ pc = "except") => (exc = ValueError /\ execd = <<"nproc">>)

C20_Witness ==
    /\ Returned
    /\ Connected
    /\ exc = SSHException
    /\ Last(execd) = "free"
    /\ Len(cpu_samples) = Repeats
    /\ cpu_cores = 4
    /\ FailureShape(ret)

====
